---------------------------- MODULE Spec2Model ----------------------------
(***************************************************************************)
(* A model of the JECS parser (src/src/parser.rs) and of the typed         *)
(* accessors of its value tree (src/src/types.rs).                         *)
(*                                                                         *)
(* Text is a sequence of one-character strings.  Option<T> is a sequence   *)
(* of length at most one: None is <<>>, Some(x) is <<x>>.  A Vec is a      *)
(* sequence whose last element is the top (push = Append, pop = Last).     *)
(* A HashMap is a function from keys to values.                            *)
(***************************************************************************)
EXTENDS Integers, Sequences, FiniteSets, TLC

VARIABLES
    pc,        \* position in parse_jecs_string
    row,       \* number of source lines consumed so far
    roots,     \* TreeParser.roots
    stack,     \* TreeParser.stack
    line,      \* the record parse_line gave for the last line, if any
    accepted,  \* the LineMeta records the tree builder accepted so far
    result,    \* what parse_jecs_string returned, None while it runs
    input,     \* the text given to the parser, as its lines, where it is fixed
    ml,        \* the multi-line string read_value is reading or last read, if any
    node,      \* the JecsType value an accessor is called on
    access     \* the last accessor call and what it returned, if any

parseVars == <<pc, row, line, roots, stack, accepted, result>>
scanVars == <<ml>>
textVars == <<input>>
typeVars == <<node, access>>
vars == <<parseVars, scanVars, textVars, typeVars>>

----------------------------------------------------------------------------
(* Bounds of the model. *)

(* Spec: every input of at most MaxLines lines indented at most MaxIndent. *)
MaxLines == 4
MaxIndent == 3

(* SpecDeep: longer inputs of shallower indentation. *)
DeepLines == 5
DeepIndent == 2

(* SpecScan: inputs of at most MaxScanLines lines of characters whose      *)
(* records are indented at most MaxScanIndent.                             *)
MaxScanLines == 5
MaxScanIndent == 1

(* SpecText: texts of at most MaxInputLines lines. *)
MaxInputLines == 4

(* SpecValue: value texts of at most MaxValueLen characters. *)
MaxValueLen == 4

(* SpecTypes: the texts of the Value nodes the accessors are called on. *)
MaxTextLen == 3

----------------------------------------------------------------------------
(* Option and Vec helpers. *)

None == <<>>
Some(x) == <<x>>
unwrap(o) == o[1]
Last(s) == s[Len(s)]
Pop(s) == SubSeq(s, 1, Len(s) - 1)
Reverse(s) == [i \in 1..Len(s) |-> s[Len(s) + 1 - i]]

----------------------------------------------------------------------------
(* LineMeta, parser.rs 57-81. *)

Keys == {<<"a">>, <<"b">>}
Values == {<<"v">>}

LineMeta(r, i, k, v) == [row |-> r, indentation |-> i, key |-> k, value |-> v]

is_list(meta) == meta.key = None

get_data_type(meta) == IF is_list(meta) THEN "List" ELSE "Map"

is_parent(meta) == meta.value = None

(* LineContext::new that takes no line for one with a value. *)
LineContext_new_undetermined(meta) ==
    [ meta |-> meta,
      children |-> <<>>,
      expected_child_indentation |-> 0,
      determined_type |-> "Any" ]

(* LineContext::new, parser.rs 270-279. *)
LineContext_new(meta) ==
    [ meta |-> meta,
      children |-> <<>>,
      expected_child_indentation |-> 0,
      determined_type |-> IF is_parent(meta) THEN "Any" ELSE "Value" ]

----------------------------------------------------------------------------
(* The line scanner, parse_line, parser.rs 92-260.  A character iterator   *)
(* is the sequence of the characters not yet consumed.                     *)

Quotes3 == <<"\"", "\"", "\"">>
Newline == "\n"

RECURSIVE trim_end(_)
trim_end(text) ==
    IF text # <<>> /\ Last(text) = " " THEN trim_end(Pop(text)) ELSE text

ScanOk(x, rest) == [status |-> "ok", value |-> x, rest |-> rest, msg |-> ""]
ScanErr(m) == [status |-> "err", value |-> None, rest |-> <<>>, msg |-> m]

(* read_indentation without lines 131-132: '#' is an ordinary character. *)
RECURSIVE read_indentation_from_no_comment(_, _, _)
read_indentation_from_no_comment(chars, n, check_for_column) ==
    IF chars = <<>> THEN ScanOk(None, chars)
    ELSE IF Head(chars) = " "
    THEN read_indentation_from_no_comment(Tail(chars), n + 1, check_for_column)
    ELSE IF check_for_column /\ Head(chars) = ":"
    THEN ScanErr("Line has no key, encountered ':'")
    ELSE ScanOk(Some(n), chars)

(* read_indentation, parser.rs 120-141; n is the count so far. *)
RECURSIVE read_indentation_from(_, _, _)
read_indentation_from(chars, n, check_for_column) ==
    IF chars = <<>> THEN ScanOk(None, chars)
    ELSE IF Head(chars) = " "
    THEN read_indentation_from(Tail(chars), n + 1, check_for_column)
    ELSE IF Head(chars) = "#" THEN ScanOk(None, chars)
    ELSE IF check_for_column /\ Head(chars) = ":"
    THEN ScanErr("Line has no key, encountered ':'")
    ELSE ScanOk(Some(n), chars)

read_indentation(chars, check_for_column) ==
    read_indentation_from(chars, 0, check_for_column)

(* read_key, parser.rs 143-169; the loop of 146-162. *)
RECURSIVE read_key_from(_, _)
read_key_from(chars, key_builder) ==
    IF chars = <<>> THEN ScanErr("Unexpected line end while reading key")
    ELSE IF Head(chars) = ":" THEN ScanOk(Some(trim_end(key_builder)), Tail(chars))
    ELSE IF Head(chars) = "#" THEN ScanErr("key may not contain a # character")
    ELSE read_key_from(Tail(chars), Append(key_builder, Head(chars)))

read_key(chars) ==
    IF Head(chars) # "-" THEN read_key_from(chars, <<>>)
    ELSE ScanOk(None, Tail(chars))

(* parser.rs 106-108. *)
RECURSIVE skip_spaces(_)
skip_spaces(chars) ==
    IF chars # <<>> /\ Head(chars) = " " THEN skip_spaces(Tail(chars)) ELSE chars

(* The loop of read_value_raw without lines 246-248: a backslash is an     *)
(* ordinary character.                                                     *)
RECURSIVE read_value_raw_from_no_escape(_, _)
read_value_raw_from_no_escape(chars, value_builder) ==
    IF chars = <<>> THEN value_builder
    ELSE IF Head(chars) = "#" THEN value_builder
    ELSE read_value_raw_from_no_escape(Tail(chars), Append(value_builder, Head(chars)))

(* read_value_raw, parser.rs 234-259; the loop of 240-255. *)
RECURSIVE read_value_raw_from(_, _)
read_value_raw_from(chars, value_builder) ==
    IF chars = <<>> THEN value_builder
    ELSE LET c == Head(chars) IN
         IF c = "\\" /\ Len(chars) > 1 /\ chars[2] = "#"
         THEN read_value_raw_from(Tail(Tail(chars)), Append(value_builder, "#"))
         ELSE IF c = "#" THEN value_builder
         ELSE read_value_raw_from(Tail(chars), Append(value_builder, c))

read_value_raw(chars) ==
    IF chars = <<>> \/ Head(chars) = "#" THEN None
    ELSE Some(trim_end(read_value_raw_from(chars, <<>>)))

(* parse_line up to the call of read_value and read_value's first lines,   *)
(* parser.rs 93-111, 172-176: the indentation, the key and the raw value.  *)
(* status "none" is Ok(None); "open" is a value that opens a multi-line    *)
(* string.                                                                 *)
LineHead(st, ind, key, value, m) ==
    [status |-> st, indentation |-> ind, key |-> key, value |-> value, msg |-> m]

parse_line_head(chars) ==
    LET ri == read_indentation(chars, TRUE) IN
    IF ri.status = "err" THEN LineHead("err", 0, None, None, ri.msg)
    ELSE IF ri.value = None THEN LineHead("none", 0, None, None, "")
    ELSE LET rk == read_key(ri.rest) IN
    IF rk.status = "err" THEN LineHead("err", 0, None, None, rk.msg)
    ELSE LET content == read_value_raw(skip_spaces(rk.rest)) IN
         LineHead(IF content = Some(Quotes3) THEN "open" ELSE "ok",
                  unwrap(ri.value), rk.value, content, "")

(* The state of read_value's loop, parser.rs 178-180, with the lines it    *)
(* has pulled so far.                                                      *)
MultiLine(orig, sb, last, wrote, lines) ==
    [ original_indentation |-> orig, string_builder |-> sb,
      last_indentation |-> last, wrote_first_line |-> wrote, lines |-> lines ]

MultiStep(st, ms, m) == [status |-> st, ms |-> ms, msg |-> m]

(* read_value's loop without line 198: a line that simply ends leaves      *)
(* wrote_first_line as it was.                                             *)
read_value_step_blank_unflagged(ms, content) ==
    LET ri == read_indentation(content, FALSE)
        pulled == [ms EXCEPT !.lines = Append(ms.lines, content)]
        separated == IF ms.wrote_first_line
                     THEN Append(ms.string_builder, Newline)
                     ELSE ms.string_builder
    IN
    IF ri.value = None
    THEN MultiStep("more", [pulled EXCEPT !.string_builder = separated], "")
    ELSE LET indentation == unwrap(ri.value) IN
    IF ms.last_indentation = None /\ indentation <= ms.original_indentation
    THEN MultiStep("err", pulled, "more indentation")
    ELSE IF ms.last_indentation # None /\ unwrap(ms.last_indentation) # indentation
    THEN MultiStep("err", pulled, "consistent indentation")
    ELSE LET checked == [pulled EXCEPT !.last_indentation = Some(indentation)]
             raw == read_value_raw(ri.rest)
         IN
         IF raw = None THEN MultiStep("panic", checked, "")
         ELSE IF unwrap(raw) = Quotes3 THEN MultiStep("closed", checked, "")
         ELSE MultiStep("more",
                  [checked EXCEPT !.string_builder = separated \o unwrap(raw),
                                  !.wrote_first_line = TRUE], "")

(* One iteration of read_value's loop on the next line, parser.rs 187-230. *)
(* status: "more", "closed" (the terminator was read), "err" or "panic".   *)
read_value_step(ms, content) ==
    LET ri == read_indentation(content, FALSE)
        pulled == [ms EXCEPT !.lines = Append(ms.lines, content)]
        separated == IF ms.wrote_first_line
                     THEN Append(ms.string_builder, Newline)
                     ELSE ms.string_builder
    IN
    IF ri.value = None
    THEN MultiStep("more", [pulled EXCEPT !.string_builder = separated,
                                          !.wrote_first_line = TRUE], "")
    ELSE LET indentation == unwrap(ri.value) IN
    IF ms.last_indentation = None /\ indentation <= ms.original_indentation
    THEN MultiStep("err", pulled,
             "Multi-line string lines must have more indentation than its opener")
    ELSE IF ms.last_indentation # None /\ unwrap(ms.last_indentation) # indentation
    THEN MultiStep("err", pulled,
             "Multi-line string lines must have consistent indentation until its terminator (\"\"\")")
    ELSE LET checked == [pulled EXCEPT !.last_indentation = Some(indentation)]
             raw == read_value_raw(ri.rest)
         IN
         IF raw = None THEN MultiStep("panic", checked, "")
         ELSE IF unwrap(raw) = Quotes3 THEN MultiStep("closed", checked, "")
         ELSE MultiStep("more",
                  [checked EXCEPT !.string_builder = separated \o unwrap(raw),
                                  !.wrote_first_line = TRUE], "")

----------------------------------------------------------------------------
(* TreeParser, parser.rs 281-410.  A handler maps the parser's fields and  *)
(* a line to the fields after the call and the way the call ended:         *)
(* "ok", "err" (a JecsCorruptedDataError, in err) or "panic".              *)

NoErr == [row |-> 0, msg |-> "", expected |-> 0, got |-> 0]

Ok(rs, st) == [status |-> "ok", roots |-> rs, stack |-> st, err |-> NoErr]

Err(rs, st, r, m, e, g) ==
    [ status |-> "err", roots |-> rs, stack |-> st,
      err |-> [row |-> r, msg |-> m, expected |-> e, got |-> g] ]

Panic(rs, st) == [status |-> "panic", roots |-> rs, stack |-> st, err |-> NoErr]

(* Variants of the handlers below, each with one of its checks left out. *)
add_validate_root_any_indentation(rs, st, meta) ==
    IF is_list(meta)
    THEN Err(rs, st, meta.row, "Root level entries need a key", 0, 0)
    ELSE Ok(rs, Append(st, LineContext_new(meta)))

add_validate_root_keyless(rs, st, meta) ==
    IF meta.indentation # 0
    THEN Err(rs, st, meta.row, "Root level entries need indentation level",
             0, meta.indentation)
    ELSE Ok(rs, Append(st, LineContext_new(meta)))

handle_new_child_line_unchecked(rs, st, meta) ==
    IF Len(st) = 0 THEN Panic(rs, st)
    ELSE LET previous_line == Last(st)
             typed == [previous_line EXCEPT
                 !.determined_type = IF is_list(meta) THEN "List" ELSE "Map",
                 !.expected_child_indentation = meta.indentation]
         IN Ok(rs, Append(Append(Pop(st), typed), LineContext_new(meta)))

handle_new_sibling_line_unchecked(rs, st, meta) ==
    IF Len(st) = 0 THEN Panic(rs, st)
    ELSE LET previous_line == Last(st)
             st1 == Pop(st)
         IN
    IF Len(st1) = 0
    THEN IF meta.indentation # 0
         THEN Err(Append(rs, previous_line), st1, meta.row,
                  "Root level entries need indentation level", 0, meta.indentation)
         ELSE IF is_list(meta)
         THEN Err(Append(rs, previous_line), st1, meta.row,
                  "Root level entries need a key", 0, 0)
         ELSE Ok(Append(rs, previous_line), Append(st1, LineContext_new(meta)))
    ELSE LET parent == Last(st1)
             merged == [parent EXCEPT
                      !.children = Append(parent.children, previous_line)]
         IN Ok(rs, Append(Append(Pop(st1), merged), LineContext_new(meta)))

(* handle_new_child_line without line 335: the parent does not learn the   *)
(* indentation of its children.                                            *)
handle_new_child_line_no_expectation(rs, st, meta) ==
    IF Len(st) = 0 THEN Panic(rs, st)
    ELSE LET previous_line == Last(st) IN
    IF previous_line.determined_type # "Any"
    THEN Err(rs, st, meta.row,
             "Child entries can only be added to entries without value", 0, 0)
    ELSE LET typed == [previous_line EXCEPT
                 !.determined_type = IF is_list(meta) THEN "List" ELSE "Map"]
         IN Ok(rs, Append(Append(Pop(st), typed), LineContext_new(meta)))

(* post_line_addition_cleanup that also forgets what the roots expected    *)
(* of their children.                                                      *)
RECURSIVE post_line_addition_cleanup_resetting(_, _)
post_line_addition_cleanup_resetting(rs, st) ==
    IF Len(st) = 0
    THEN Ok([i \in DOMAIN rs |-> [rs[i] EXCEPT !.expected_child_indentation = 0]], st)
    ELSE LET entry == Last(st)
             st1 == Pop(st)
         IN IF Len(st1) > 0
            THEN post_line_addition_cleanup_resetting(rs,
                     Append(Pop(st1), [Last(st1) EXCEPT
                         !.children = Append(Last(st1).children, entry)]))
            ELSE post_line_addition_cleanup_resetting(Append(rs, entry), st1)

(* post_line_addition_cleanup that moves only the bottom entry of the      *)
(* stack to the roots.                                                     *)
post_line_addition_cleanup_bottom_only(rs, st) ==
    IF Len(st) = 0 THEN Ok(rs, st) ELSE Ok(Append(rs, st[1]), <<>>)

(* handle_new_sibling_line that gives the parent the shape of the new      *)
(* line instead of comparing the two.                                      *)
handle_new_sibling_line_retyping(rs, st, meta) ==
    IF Len(st) = 0 THEN Panic(rs, st)
    ELSE LET previous_line == Last(st)
             st1 == Pop(st)
         IN
    IF Len(st1) = 0
    THEN IF meta.indentation # 0
         THEN Err(Append(rs, previous_line), st1, meta.row,
                  "Root level entries need indentation level", 0, meta.indentation)
         ELSE IF is_list(meta)
         THEN Err(Append(rs, previous_line), st1, meta.row,
                  "Root level entries need a key", 0, 0)
         ELSE Ok(Append(rs, previous_line), Append(st1, LineContext_new(meta)))
    ELSE LET parent == Last(st1)
             merged == [parent EXCEPT
                      !.determined_type = get_data_type(meta),
                      !.children = Append(parent.children, previous_line)]
         IN Ok(rs, Append(Append(Pop(st1), merged), LineContext_new(meta)))

add_validate_root(rs, st, meta) ==
    IF meta.indentation # 0
    THEN Err(rs, st, meta.row, "Root level entries need indentation level",
             0, meta.indentation)
    ELSE IF is_list(meta)
    THEN Err(rs, st, meta.row, "Root level entries need a key", 0, 0)
    ELSE Ok(rs, Append(st, LineContext_new(meta)))

handle_new_child_line(rs, st, meta) ==
    IF Len(st) = 0 THEN Panic(rs, st)
    ELSE LET previous_line == Last(st) IN
    IF previous_line.determined_type # "Any"
    THEN Err(rs, st, meta.row,
             "Child entries can only be added to entries without value", 0, 0)
    ELSE LET typed == [previous_line EXCEPT
                 !.determined_type = IF is_list(meta) THEN "List" ELSE "Map",
                 !.expected_child_indentation = meta.indentation]
         IN Ok(rs, Append(Append(Pop(st), typed), LineContext_new(meta)))

handle_new_sibling_line(rs, st, meta) ==
    IF Len(st) = 0 THEN Panic(rs, st)
    ELSE LET previous_line == Last(st)
             st1 == Pop(st)
         IN
    IF Len(st1) = 0
    THEN add_validate_root(Append(rs, previous_line), st1, meta)
    ELSE LET parent == Last(st1) IN
         IF parent.determined_type # get_data_type(meta)
         THEN Err(rs, st1, meta.row,
                  "Cannot mix list and dict collection entries with the same parent",
                  0, 0)
         ELSE LET merged == [parent EXCEPT
                      !.children = Append(parent.children, previous_line)]
              IN Ok(rs, Append(Append(Pop(st1), merged), LineContext_new(meta)))

RECURSIVE handle_new_parents_sibling_line(_, _, _)
handle_new_parents_sibling_line(rs, st, meta) ==
    IF Len(st) = 0 THEN Panic(rs, st)
    ELSE LET previous_entry_with_higher_indentation == Last(st)
             st1 == Pop(st)
         IN
    IF Len(st1) = 0
    THEN add_validate_root(Append(rs, previous_entry_with_higher_indentation),
                           st1, meta)
    ELSE LET potential_parent == [Last(st1) EXCEPT
                 !.children = Append(Last(st1).children,
                                     previous_entry_with_higher_indentation)]
             st2 == Append(Pop(st1), potential_parent)
         IN
         IF meta.indentation > potential_parent.expected_child_indentation
         THEN Err(rs, st2, meta.row, "Wrongly indented JECS entry",
                  potential_parent.expected_child_indentation, meta.indentation)
         ELSE IF meta.indentation = potential_parent.expected_child_indentation
         THEN IF potential_parent.determined_type # get_data_type(meta)
              THEN Err(rs, st2, meta.row,
                       "Cannot mix list and dict collection entries within the same parent",
                       0, 0)
              ELSE Ok(rs, Append(st2, LineContext_new(meta)))
         ELSE handle_new_parents_sibling_line(rs, st2, meta)

append_next_line(rs, st, meta) ==
    IF Len(st) = 0 THEN Panic(rs, st)
    ELSE LET previous_line == Last(st) IN
         IF meta.indentation > previous_line.meta.indentation
         THEN handle_new_child_line(rs, st, meta)
         ELSE IF meta.indentation = previous_line.meta.indentation
         THEN handle_new_sibling_line(rs, st, meta)
         ELSE handle_new_parents_sibling_line(rs, st, meta)

RECURSIVE post_line_addition_cleanup(_, _)
post_line_addition_cleanup(rs, st) ==
    IF Len(st) = 0 THEN Ok(rs, st)
    ELSE LET entry == Last(st)
             st1 == Pop(st)
         IN IF Len(st1) > 0
            THEN post_line_addition_cleanup(rs,
                     Append(Pop(st1), [Last(st1) EXCEPT
                         !.children = Append(Last(st1).children, entry)]))
            ELSE post_line_addition_cleanup(Append(rs, entry), st1)

----------------------------------------------------------------------------
(* JecsType, types.rs 4-11. *)

JecsAny == [t |-> "Any"]
JecsValue(text) == [t |-> "Value", value |-> text]
JecsMap(m) == [t |-> "Map", map |-> m]
JecsList(l) == [t |-> "List", list |-> l]

EmptyMap == [k \in {} |-> JecsAny]

(* HashMap::insert: an existing entry of the same key is replaced. *)
insert(m, k, v) == (k :> v) @@ m

----------------------------------------------------------------------------
(* TreeParser::finalize_to_map, parser.rs 412-495. *)

ConvertedMeta(n, c, cc) == [name |-> n, converted |-> c, child_count |-> cc]

FinState(cs, ps, p) == [converted_stack |-> cs, process_stack |-> ps, panic |-> p]

(* parser.rs 428-439: the converted entry, still without children.         *)
convert_entry(entry) ==
    CASE entry.determined_type = "Any" -> JecsAny
      [] entry.determined_type = "Value" -> JecsValue(unwrap(entry.meta.value))
      [] entry.determined_type = "Map" -> JecsMap(EmptyMap)
      [] entry.determined_type = "List" -> JecsList(<<>>)

(* parser.rs 453-472, the merge loop: child is injected into the top of    *)
(* the converted stack; a parent that is full is popped and injected into  *)
(* its own parent in turn.                                                 *)
RECURSIVE merge_loop(_, _)
merge_loop(cs, child) ==
    LET parent == Last(cs)
        isMap == parent.converted.t = "Map"
        isList == parent.converted.t = "List"
    IN
    IF isMap /\ child.name = None
    THEN FinState(cs, <<>>, TRUE)      \* converted_meta.name.unwrap() on None
    ELSE
    LET filled ==
            IF isMap
            THEN JecsMap(insert(parent.converted.map, unwrap(child.name), child.converted))
            ELSE IF isList
            THEN JecsList(Append(parent.converted.list, child.converted))
            ELSE parent.converted
        has_more ==
            IF isMap THEN parent.child_count > Cardinality(DOMAIN filled.map)
            ELSE IF isList THEN parent.child_count > Len(filled.list)
            ELSE FALSE
        cs1 == Append(Pop(cs), [parent EXCEPT !.converted = filled])
    IN
    IF has_more \/ Len(cs1) <= 1
    THEN FinState(cs1, <<>>, FALSE)
    ELSE merge_loop(Pop(cs1), Last(cs1))

(* parser.rs 426-487, one iteration of the work-list loop. *)
process_entry(cs, ps) ==
    LET entry == Last(ps)
        ps1 == Pop(ps)
    IN
    IF entry.determined_type = "Value" /\ entry.meta.value = None
    THEN FinState(cs, ps1, TRUE)       \* entry.meta.value.take().unwrap()
    ELSE
    LET converted_entry == convert_entry(entry)
        meta == ConvertedMeta(entry.meta.key, converted_entry, Len(entry.children))
    IN
    IF Len(entry.children) = 0
    THEN LET m == merge_loop(cs, meta)
         IN FinState(m.converted_stack, ps1, m.panic)
    ELSE FinState(Append(cs, meta), ps1 \o Reverse(entry.children), FALSE)

RECURSIVE finalize_loop(_, _)
finalize_loop(cs, ps) ==
    IF Len(ps) = 0 THEN FinState(cs, ps, FALSE)
    ELSE LET s == process_entry(cs, ps)
         IN IF s.panic THEN s
            ELSE finalize_loop(s.converted_stack, s.process_stack)

RetOk(v) == [kind |-> "Ok", value |-> v]
RetErr(e) == [kind |-> "Err", err |-> e]
RetPanic == [kind |-> "Panic"]

(* A finalizer that takes an empty forest for a defect. *)
finalize_to_map_needing_roots(rs) ==
    LET s == finalize_loop(<<ConvertedMeta(None, JecsMap(EmptyMap), Len(rs))>>,
                           Reverse(rs))
    IN IF s.panic \/ rs = <<>> THEN RetPanic
       ELSE LET root == Last(s.converted_stack).converted
            IN IF root.t = "Map" THEN RetOk(root) ELSE RetPanic

finalize_to_map(rs) ==
    LET s == finalize_loop(<<ConvertedMeta(None, JecsMap(EmptyMap), Len(rs))>>,
                           Reverse(rs))
    IN IF s.panic THEN RetPanic
       ELSE LET root == Last(s.converted_stack).converted
            IN IF root.t = "Map" THEN RetOk(root) ELSE RetPanic

----------------------------------------------------------------------------
(* parse_jecs_string, parser.rs 21-46.  The line scanner is the operators  *)
(* of the scanner section; here its outcome for the next line is an input: *)
(* no record (a blank or comment-only line), a record, or an error.        *)

OptKeys == {None} \cup {Some(k) : k \in Keys}
OptValues == {None} \cup {Some(v) : v \in Values}

LineMetas(r, maxIndent) ==
    { LineMeta(r, i, k, v) : i \in 0..maxIndent, k \in OptKeys, v \in OptValues }

Init ==
    /\ pc = "first"
    /\ row = 0
    /\ line = None
    /\ roots = <<>>
    /\ stack = <<>>
    /\ accepted = <<>>
    /\ result = None
    /\ ml = None
    /\ input = <<>>
    /\ node = JecsAny
    /\ access = None

(* Apply a tree-builder call's outcome, as the `?` of parser.rs 31, 38: an *)
(* error ends parse_jecs_string, which drops the TreeParser.               *)
Apply(out, meta, next) ==
    /\ UNCHANGED <<textVars, typeVars>>
    /\ line' = Some(meta)
    /\ IF out.status = "ok"
       THEN /\ roots' = out.roots
            /\ stack' = out.stack
            /\ accepted' = Append(accepted, meta)
            /\ pc' = next
            /\ result' = None
       ELSE /\ roots' = <<>>
            /\ stack' = <<>>
            /\ accepted' = <<>>
            /\ pc' = "done"
            /\ result' = Some(IF out.status = "err" THEN RetErr(out.err)
                                                   ELSE RetPanic)

(* parser.rs 29-34: a line before the first record that yields no record. *)
SkipFirstOf(maxLines) ==
    /\ pc = "first"
    /\ row < maxLines
    /\ row' = row + 1
    /\ line' = None
    /\ UNCHANGED <<pc, roots, stack, accepted, result, scanVars, textVars, typeVars>>

(* parser.rs 29-34: the first record seeds the stack. *)
SeedRootOf(maxLines, maxIndent) ==
    /\ pc = "first"
    /\ row < maxLines
    /\ row' = row + 1
    /\ UNCHANGED scanVars
    /\ \E meta \in LineMetas(row + 1, maxIndent) :
          Apply(add_validate_root(roots, stack, meta), meta, "rest")

(* parser.rs 36-40: a later line that yields no record. *)
SkipLineOf(maxLines) ==
    /\ pc = "rest"
    /\ row < maxLines
    /\ row' = row + 1
    /\ line' = None
    /\ UNCHANGED <<pc, roots, stack, accepted, result, scanVars, textVars, typeVars>>

(* parser.rs 36-40: a later record is appended. *)
AppendLineOf(maxLines, maxIndent) ==
    /\ pc = "rest"
    /\ row < maxLines
    /\ row' = row + 1
    /\ UNCHANGED scanVars
    /\ \E meta \in LineMetas(row + 1, maxIndent) :
          Apply(append_next_line(roots, stack, meta), meta, "rest")

(* parser.rs 30, 37: parse_line fails on the next line. *)
LineErrorOf(maxLines) ==
    /\ pc \in {"first", "rest"}
    /\ row < maxLines
    /\ row' = row + 1
    /\ line' = None
    /\ roots' = <<>>
    /\ stack' = <<>>
    /\ accepted' = <<>>
    /\ pc' = "done"
    /\ result' = Some(RetErr([row |-> row + 1, msg |-> "Line scanner error",
                              expected |-> 0, got |-> 0]))
    /\ UNCHANGED <<scanVars, textVars, typeVars>>

(* parser.rs 41-45: the input is exhausted; the stack is drained into the  *)
(* roots and the forest is converted.  roots keeps the forest that was     *)
(* handed to finalize_to_map.                                              *)
EndOfInput ==
    /\ pc \in {"first", "rest"}
    /\ LET out == post_line_addition_cleanup(roots, stack)
       IN /\ roots' = out.roots
          /\ stack' = out.stack
          /\ result' = Some(finalize_to_map(out.roots))
    /\ pc' = "done"
    /\ UNCHANGED <<row, line, accepted, scanVars, textVars, typeVars>>

SkipFirst == SkipFirstOf(MaxLines)
SeedRoot == SeedRootOf(MaxLines, MaxIndent)
SkipLine == SkipLineOf(MaxLines)
AppendLine == AppendLineOf(MaxLines, MaxIndent)
LineError == LineErrorOf(MaxLines)

Next ==
    \/ SkipFirst
    \/ SeedRoot
    \/ SkipLine
    \/ AppendLine
    \/ LineError
    \/ EndOfInput

Spec == Init /\ [][Next]_vars

DeepSkipFirst == SkipFirstOf(DeepLines)
DeepSeedRoot == SeedRootOf(DeepLines, DeepIndent)
DeepSkipLine == SkipLineOf(DeepLines)
DeepAppendLine == AppendLineOf(DeepLines, DeepIndent)
DeepLineError == LineErrorOf(DeepLines)

NextDeep ==
    \/ DeepSkipFirst
    \/ DeepSeedRoot
    \/ DeepSkipLine
    \/ DeepAppendLine
    \/ DeepLineError
    \/ EndOfInput

SpecDeep == Init /\ [][NextDeep]_vars

----------------------------------------------------------------------------
(* parse_jecs_string on lines of characters, parser.rs 21-46 with          *)
(* parse_line, 92-119.  Each step pulls one line from line_iterator.  A    *)
(* multi-line string is read one line per step: pc is "first_multi" or     *)
(* "rest_multi" while read_value's loop runs inside the first or the       *)
(* second loop of parse_jecs_string.                                       *)

Spaces(n) == [i \in 1..n |-> " "]

ScanBodies ==
    { <<>>, <<"#", "c">>, <<":">>, <<"a", ":">>, <<"-">>,
      <<"a", ":", " ", "x">>, <<"a", ":", " ">> \o Quotes3, <<"-">> \o Quotes3 }

ScanLines == { Spaces(i) \o b : i \in 0..MaxScanIndent, b \in ScanBodies }

BlockBodies == { <<"x">>, <<"y", " ", "#">>, Quotes3 }

BlockLines ==
    { Spaces(i) \o b : i \in 0..(MaxScanIndent + 1), b \in BlockBodies }
        \cup { <<>>, <<" ">>, <<"#">>, <<" ", " ", "#", "c">> }

(* The multi-line string being read: the row and key of its opener,        *)
(* read_value's loop state, and whether the loop is running ("open"),      *)
(* returned the text ("closed") or failed ("failed").                      *)
Block(st, r, key, loop) == [status |-> st, row |-> r, key |-> key, loop |-> loop]

ScanFail(r, m) ==
    /\ roots' = <<>>
    /\ stack' = <<>>
    /\ accepted' = <<>>
    /\ pc' = "done"
    /\ result' = Some(RetErr([row |-> r, msg |-> m, expected |-> 0, got |-> 0]))

Handoff(meta) ==
    Apply(IF pc \in {"first", "first_multi"}
          THEN add_validate_root(roots, stack, meta)
          ELSE append_next_line(roots, stack, meta), meta, "rest")

(* parser.rs 96-98: a blank or comment-only line yields no record. *)
ScanSkip ==
    /\ pc \in {"first", "rest"}
    /\ row < MaxScanLines
    /\ \E chars \in ScanLines : parse_line_head(chars).status = "none"
    /\ row' = row + 1
    /\ line' = None
    /\ ml' = None
    /\ UNCHANGED <<pc, roots, stack, accepted, result, textVars, typeVars>>

(* parser.rs 96, 103: read_indentation or read_key fails. *)
ScanError ==
    /\ pc \in {"first", "rest"}
    /\ row < MaxScanLines
    /\ \E chars \in ScanLines :
          LET h == parse_line_head(chars) IN
          /\ h.status = "err"
          /\ ScanFail(row + 1, h.msg)
    /\ row' = row + 1
    /\ line' = None
    /\ ml' = None
    /\ UNCHANGED <<textVars, typeVars>>

(* parser.rs 113-118 and 31, 38: a one-line record goes to the builder. *)
ScanRecord ==
    /\ pc \in {"first", "rest"}
    /\ row < MaxScanLines
    /\ \E chars \in ScanLines :
          LET h == parse_line_head(chars) IN
          /\ h.status = "ok"
          /\ Handoff(LineMeta(row + 1, h.indentation, h.key, h.value))
    /\ row' = row + 1
    /\ ml' = None

(* parser.rs 172-180: the value opens a multi-line string. *)
ScanOpen ==
    /\ pc \in {"first", "rest"}
    /\ row < MaxScanLines
    /\ \E chars \in ScanLines :
          LET h == parse_line_head(chars) IN
          /\ h.status = "open"
          /\ ml' = Some(Block("open", row + 1, h.key,
                              MultiLine(h.indentation, <<>>, None, FALSE, <<>>)))
    /\ row' = row + 1
    /\ line' = None
    /\ pc' = IF pc = "first" THEN "first_multi" ELSE "rest_multi"
    /\ UNCHANGED <<roots, stack, accepted, result, textVars, typeVars>>

(* parser.rs 183-230: a line of the string that is not its terminator. *)
ScanMore ==
    /\ pc \in {"first_multi", "rest_multi"}
    /\ row < MaxScanLines
    /\ \E chars \in BlockLines :
          LET step == read_value_step(unwrap(ml).loop, chars) IN
          /\ step.status = "more"
          /\ ml' = Some([unwrap(ml) EXCEPT !.loop = step.ms])
    /\ row' = row + 1
    /\ UNCHANGED <<pc, line, roots, stack, accepted, result, textVars, typeVars>>

(* parser.rs 222-225, 113-118 and 31, 38: the terminator ends the string   *)
(* and its record, which carries the opener's row, goes to the builder.    *)
ScanClose ==
    /\ pc \in {"first_multi", "rest_multi"}
    /\ row < MaxScanLines
    /\ \E chars \in BlockLines :
          LET b == unwrap(ml)
              step == read_value_step(b.loop, chars) IN
          /\ step.status = "closed"
          /\ ml' = Some([b EXCEPT !.status = "closed", !.loop = step.ms])
          /\ Handoff(LineMeta(b.row, b.loop.original_indentation, b.key,
                              Some(step.ms.string_builder)))
    /\ row' = row + 1

(* parser.rs 208-217, 221: a line of the string is rejected. *)
ScanReject ==
    /\ pc \in {"first_multi", "rest_multi"}
    /\ row < MaxScanLines
    /\ \E chars \in BlockLines :
          LET b == unwrap(ml)
              step == read_value_step(b.loop, chars) IN
          /\ step.status \in {"err", "panic"}
          /\ ml' = Some([b EXCEPT !.status = "failed", !.loop = step.ms])
          /\ IF step.status = "err"
             THEN ScanFail(row + 1, step.msg)
             ELSE /\ roots' = <<>>
                  /\ stack' = <<>>
                  /\ accepted' = <<>>
                  /\ pc' = "done"
                  /\ result' = Some(RetPanic)
    /\ row' = row + 1
    /\ UNCHANGED <<line, textVars, typeVars>>

(* parser.rs 183-186: the input ends inside the string. *)
ScanEndInString ==
    /\ pc \in {"first_multi", "rest_multi"}
    /\ ml' = Some([unwrap(ml) EXCEPT !.status = "failed"])
    /\ ScanFail(row, "Multi-line string started, but file ends unexpectedly")
    /\ UNCHANGED <<row, line, textVars, typeVars>>

NextScan ==
    \/ ScanSkip
    \/ ScanError
    \/ ScanRecord
    \/ ScanOpen
    \/ ScanMore
    \/ ScanClose
    \/ ScanReject
    \/ ScanEndInString
    \/ EndOfInput

SpecScan == Init /\ [][NextScan]_vars

----------------------------------------------------------------------------
(* Text helpers for the typed accessors.  A character is a one-character   *)
(* string, except "ae", which stands for a character of two bytes in       *)
(* UTF-8 (str::len counts bytes).                                          *)

Digits == {"0", "1", "2", "3", "4", "5", "6", "7", "8", "9"}

DigitValue(c) ==
    CASE c = "0" -> 0 [] c = "1" -> 1 [] c = "2" -> 2 [] c = "3" -> 3
      [] c = "4" -> 4 [] c = "5" -> 5 [] c = "6" -> 6 [] c = "7" -> 7
      [] c = "8" -> 8 [] c = "9" -> 9

ByteWidth(c) == IF c = "ae" THEN 2 ELSE 1

RECURSIVE ByteLen(_)
ByteLen(text) == IF text = <<>> THEN 0 ELSE ByteWidth(Head(text)) + ByteLen(Tail(text))

starts_with(text, prefix) ==
    Len(text) >= Len(prefix) /\ SubSeq(text, 1, Len(prefix)) = prefix

Drop(text, n) == SubSeq(text, n + 1, Len(text))

AllIn(text, set) == \A i \in DOMAIN text : text[i] \in set

RECURSIVE StripZeros(_)
StripZeros(ds) ==
    IF Len(ds) > 1 /\ Head(ds) = "0" THEN StripZeros(Tail(ds)) ELSE ds

(* Whether numeral a (no leading zeros) is greater than numeral b. *)
RECURSIVE NumeralGreater(_, _)
NumeralGreater(a, b) ==
    IF Len(a) # Len(b) THEN Len(a) > Len(b)
    ELSE IF a = <<>> THEN FALSE
    ELSE IF Head(a) # Head(b) THEN DigitValue(Head(a)) > DigitValue(Head(b))
    ELSE NumeralGreater(Tail(a), Tail(b))

U32Max == <<"4", "2", "9", "4", "9", "6", "7", "2", "9", "5">>

(* str::parse::<u32>, used at types.rs 157, 173: an optional '+', then     *)
(* one or more decimal digits, not above u32::MAX.  The number is given as *)
(* its decimal numeral without leading zeros.                              *)
parse_u32(text) ==
    LET body == IF text # <<>> /\ Head(text) = "+" THEN Tail(text) ELSE text
    IN IF body = <<>> \/ ~AllIn(body, Digits) THEN None
       ELSE IF NumeralGreater(StripZeros(body), U32Max) THEN None
       ELSE Some(StripZeros(body))

ToLower(c) ==
    CASE c = "I" -> "i" [] c = "N" -> "n" [] c = "F" -> "f" [] c = "T" -> "t"
      [] c = "Y" -> "y" [] c = "A" -> "a" [] OTHER -> c

Lower(text) == [i \in DOMAIN text |-> ToLower(text[i])]

(* The length of the longest prefix of text made of digits. *)
RECURSIVE DigitRun(_)
DigitRun(text) ==
    IF text # <<>> /\ Head(text) \in Digits THEN 1 + DigitRun(Tail(text)) ELSE 0

IsExponent(text) ==
    \/ text = <<>>
    \/ /\ Head(text) \in {"e", "E"}
       /\ LET t1 == Tail(text)
              t2 == IF t1 # <<>> /\ Head(t1) \in {"+", "-"} THEN Tail(t1) ELSE t1
          IN t2 # <<>> /\ AllIn(t2, Digits)

(* str::parse::<f64>, used at types.rs 123: an optional sign, then inf,    *)
(* infinity or nan in any case, or a decimal number with digits before or  *)
(* after an optional point and an optional exponent.                       *)
parse_f64(text) ==
    LET body == IF text # <<>> /\ Head(text) \in {"+", "-"} THEN Tail(text) ELSE text
        int == DigitRun(body)
        afterInt == Drop(body, int)
        hasPoint == afterInt # <<>> /\ Head(afterInt) = "."
        frac == IF hasPoint THEN DigitRun(Tail(afterInt)) ELSE 0
        rest == IF hasPoint THEN Drop(afterInt, 1 + frac) ELSE afterInt
    IN IF Lower(body) \in { <<"i", "n", "f">>, <<"n", "a", "n">>,
                            <<"i", "n", "f", "i", "n", "i", "t", "y">> }
       THEN Some(text)
       ELSE IF int + frac > 0 /\ IsExponent(rest) THEN Some(text) ELSE None

(* types.rs 131: the byte length of a colour text. *)
ColorLen == 6

HexUpper == Digits \cup {"A", "B", "C", "D", "E", "F"}

HexValue(c) ==
    CASE c \in Digits -> DigitValue(c)
      [] c = "A" -> 10 [] c = "B" -> 11 [] c = "C" -> 12
      [] c = "D" -> 13 [] c = "E" -> 14 [] c = "F" -> 15

(* u8::from_str_radix(pair, 16) on two validated hexadecimal digits. *)
from_str_radix_16(pair) == HexValue(pair[1]) * 16 + HexValue(pair[2])

----------------------------------------------------------------------------
(* The accessors of JecsType, types.rs 14-178. *)

name(v) == v.t

is_any(v) == v.t = "Any"
is_value(v) == v.t = "Value"
get_value(v) == IF v.t = "Value" THEN Some(v.value) ELSE None
is_map(v) == v.t \in {"Any", "Map"}
get_map(v) == IF v.t = "Map" THEN Some(v.map) ELSE None
JecsType_is_list(v) == v.t \in {"Any", "List"}
get_list(v) == IF v.t = "List" THEN Some(v.list) ELSE None

AccOk(x) == [kind |-> "Ok", value |-> x]
AccPanic == [kind |-> "Panic"]
WrongEntryType(expected, encountered) ==
    [ kind |-> "Err", error |-> "WrongEntryType",
      expected_type |-> expected, encountered_type |-> encountered ]
IncompatibleOrMalformed(dataType, text) ==
    [ kind |-> "Err", error |-> "IncompatibleOrMalformedData",
      data_type |-> dataType, value |-> text ]

(* Option::unwrap of an accessor's Option. *)
UnwrapOr(o) == IF o = None THEN AccPanic ELSE AccOk(unwrap(o))

expect_map(v) ==
    IF ~is_map(v) THEN WrongEntryType("MAP", name(v)) ELSE UnwrapOr(get_map(v))

expect_list(v) ==
    IF ~JecsType_is_list(v) THEN WrongEntryType("LIST", name(v)) ELSE UnwrapOr(get_list(v))

expect_string(v) ==
    IF ~is_value(v) THEN WrongEntryType("VALUE", name(v)) ELSE UnwrapOr(get_value(v))

(* expect_string(..).map_err(|e| e.expected_type = expected)? *)
StringFor(v, expected) ==
    LET r == expect_string(v)
    IN IF r.kind = "Err" THEN [r EXCEPT !.expected_type = expected] ELSE r

TrueWords == { <<"t", "r", "u", "e">>, <<"o", "n">>, <<"y", "e", "s">>, <<"y">> }
FalseWords == { <<"f", "a", "l", "s", "e">>, <<"o", "f", "f">>, <<"n", "o">>, <<"n">> }

expect_bool(v) ==
    LET r == StringFor(v, "bool") IN
    IF r.kind # "Ok" THEN r
    ELSE IF r.value \in TrueWords THEN AccOk(TRUE)
    ELSE IF r.value \in FalseWords THEN AccOk(FALSE)
    ELSE IncompatibleOrMalformed("boolean", r.value)

expect_double(v) ==
    LET r == StringFor(v, "double") IN
    IF r.kind # "Ok" THEN r
    ELSE IF parse_f64(r.value) = None
    THEN IncompatibleOrMalformed("double", r.value)
    ELSE AccOk(unwrap(parse_f64(r.value)))

(* expect_color with a character test that lets a-f pass as well. *)
expect_color_any_case(v) ==
    LET r == StringFor(v, "color")
        upper(c) == IF c = "f" THEN "F" ELSE c
        pair(i) == from_str_radix_16(<<upper(r.value[i]), upper(r.value[i + 1])>>)
    IN
    IF r.kind # "Ok" THEN r
    ELSE IF ByteLen(r.value) # ColorLen THEN IncompatibleOrMalformed("color", r.value)
    ELSE IF ~AllIn(r.value, HexUpper \cup {"f"})
    THEN IncompatibleOrMalformed("color", r.value)
    ELSE AccOk(<<pair(1), pair(3), pair(5)>>)

expect_color(v) ==
    LET r == StringFor(v, "color") IN
    IF r.kind # "Ok" THEN r
    ELSE IF ByteLen(r.value) # ColorLen THEN IncompatibleOrMalformed("color", r.value)
    ELSE IF ~AllIn(r.value, HexUpper) THEN IncompatibleOrMalformed("color", r.value)
    ELSE AccOk(<< from_str_radix_16(SubSeq(r.value, 1, 2)),
                  from_str_radix_16(SubSeq(r.value, 3, 4)),
                  from_str_radix_16(SubSeq(r.value, 5, 6)) >>)

expect_unsigned(v) ==
    LET r == StringFor(v, "unsigned") IN
    IF r.kind # "Ok" THEN r
    ELSE IF parse_u32(r.value) = None
    THEN IncompatibleOrMalformed("unsigned", r.value)
    ELSE AccOk(unwrap(parse_u32(r.value)))

expect_component_address(v) ==
    LET r == StringFor(v, "component address") IN
    IF r.kind # "Ok" THEN r
    ELSE IF ~starts_with(r.value, <<"C", "-">>)
    THEN IncompatibleOrMalformed("component address", r.value)
    ELSE LET value == Drop(r.value, 2) IN
         IF parse_u32(value) = None
         THEN IncompatibleOrMalformed("component address", value)
         ELSE AccOk(unwrap(parse_u32(value)))

----------------------------------------------------------------------------
(* The accessors called on a value of each variant.  The value is drawn    *)
(* at the start; each action is one accessor call on it.                   *)

SeqsUpTo(S, n) == UNION { [1..k -> S] : k \in 0..n }

TextChars == {"y", "n", "o", "C", "-", "+", "0", "1", ".", "e"}

ColorChars == {"0", "A", "f", "ae"}

(* Numerals around u32::MAX, bare and as component addresses. *)
BoundaryTexts ==
    { U32Max, <<"C", "-">> \o U32Max,
      <<"4", "2", "9", "4", "9", "6", "7", "2", "9", "6">>,
      <<"C", "-", "4", "2", "9", "4", "9", "6", "7", "2", "9", "6">> }

AccessTexts ==
    SeqsUpTo(TextChars, MaxTextLen)
       \cup [1..ColorLen -> ColorChars] \cup [1..(ColorLen - 1) -> ColorChars]
       \cup BoundaryTexts

AccessNodes ==
    {JecsAny}
       \cup { JecsValue(t) : t \in AccessTexts }
       \cup { JecsMap(EmptyMap), JecsMap(<<"a">> :> JecsAny),
              JecsList(<<>>), JecsList(<<JecsAny, JecsValue(<<"v">>)>>) }

InitTypes ==
    /\ pc = "access"
    /\ row = 0
    /\ line = None
    /\ roots = <<>>
    /\ stack = <<>>
    /\ accepted = <<>>
    /\ result = None
    /\ ml = None
    /\ input = <<>>
    /\ node \in AccessNodes
    /\ access = None

Call(op, out) ==
    /\ pc = "access"
    /\ access' = Some([op |-> op, out |-> out])
    /\ UNCHANGED <<parseVars, scanVars, textVars, node>>

CallExpectMap == Call("expect_map", expect_map(node))
CallExpectList == Call("expect_list", expect_list(node))
CallExpectString == Call("expect_string", expect_string(node))
CallExpectBool == Call("expect_bool", expect_bool(node))
CallExpectDouble == Call("expect_double", expect_double(node))
CallExpectColor == Call("expect_color", expect_color(node))
CallExpectUnsigned == Call("expect_unsigned", expect_unsigned(node))
CallExpectComponentAddress ==
    Call("expect_component_address", expect_component_address(node))

NextTypes ==
    \/ CallExpectMap
    \/ CallExpectList
    \/ CallExpectString
    \/ CallExpectBool
    \/ CallExpectDouble
    \/ CallExpectColor
    \/ CallExpectUnsigned
    \/ CallExpectComponentAddress

SpecTypes == InitTypes /\ [][NextTypes]_vars

Called(op) == access # None /\ unwrap(access).op = op
Outcome == unwrap(access).out

----------------------------------------------------------------------------
(* parse_line on one line: the key `a:` followed by a drawn value text.    *)

ValueChars == {"x", " ", "#", "\\"}

ValueTexts == SeqsUpTo(ValueChars, MaxValueLen)

KeyPart == <<"a", ":">>

InitValue ==
    /\ pc = "value"
    /\ row = 0
    /\ line = None
    /\ roots = <<>>
    /\ stack = <<>>
    /\ accepted = <<>>
    /\ result = None
    /\ ml = None
    /\ input \in { <<KeyPart \o t>> : t \in ValueTexts }
    /\ node = JecsAny
    /\ access = None

(* parse_line on the line, parser.rs 92-119. *)
ParseLine ==
    /\ pc = "value"
    /\ pc' = "scanned"
    /\ row' = 1
    /\ LET h == parse_line_head(input[1]) IN
       IF h.status = "ok"
       THEN /\ line' = Some(LineMeta(1, h.indentation, h.key, h.value))
            /\ result' = None
       ELSE /\ line' = None
            /\ result' = IF h.status = "err"
                         THEN Some(RetErr([row |-> 1, msg |-> h.msg,
                                           expected |-> 0, got |-> 0]))
                         ELSE None
    /\ UNCHANGED <<roots, stack, accepted, scanVars, textVars, typeVars>>

SpecValue == InitValue /\ [][ParseLine]_vars

----------------------------------------------------------------------------
(* parse_jecs_string on a given text, parser.rs 21-46, as a function of    *)
(* the text's lines.  The state of a run is a record of the run's          *)
(* variables.                                                              *)

ParseState(p, r, l, rs, st, acc, res, m) ==
    [ pc |-> p, row |-> r, line |-> l, roots |-> rs, stack |-> st,
      accepted |-> acc, result |-> res, ml |-> m ]

ParseStart == ParseState("first", 0, None, <<>>, <<>>, <<>>, None, None)

(* An error that is recorded while the loop goes on to the next line. *)
text_fail_and_continue(s, res) == [s EXCEPT !.result = Some(res)]

(* The `?` of parser.rs 30-31, 37-38, 45: the error is returned and the    *)
(* TreeParser dropped.                                                     *)
text_fail(s, res) ==
    [s EXCEPT !.pc = "done", !.roots = <<>>, !.stack = <<>>,
              !.accepted = <<>>, !.result = Some(res)]

ScanError_of(r, m) == RetErr([row |-> r, msg |-> m, expected |-> 0, got |-> 0])

(* parser.rs 31, 38: the record goes to the tree builder. *)
text_handoff(s, meta) ==
    LET out == IF s.pc \in {"first", "first_multi"}
               THEN add_validate_root(s.roots, s.stack, meta)
               ELSE append_next_line(s.roots, s.stack, meta)
        t == [s EXCEPT !.line = Some(meta)]
    IN IF out.status = "ok"
       THEN [t EXCEPT !.pc = "rest", !.roots = out.roots, !.stack = out.stack,
                      !.accepted = Append(s.accepted, meta)]
       ELSE text_fail(t, IF out.status = "err" THEN RetErr(out.err) ELSE RetPanic)

(* One line pulled from line_iterator, by parse_jecs_string (parser.rs 29, *)
(* 36) or by read_value (parser.rs 183).                                   *)
scan_line(s, chars) ==
    LET pulled == [s EXCEPT !.row = s.row + 1] IN
    IF s.pc \in {"first", "rest"}
    THEN LET h == parse_line_head(chars)
             plain == [pulled EXCEPT !.ml = None]
         IN
         CASE h.status = "none" -> [plain EXCEPT !.line = None]
           [] h.status = "err" ->
                 text_fail([plain EXCEPT !.line = None], ScanError_of(s.row + 1, h.msg))
           [] h.status = "ok" ->
                 text_handoff(plain, LineMeta(s.row + 1, h.indentation, h.key, h.value))
           [] h.status = "open" ->
                 [pulled EXCEPT
                     !.line = None,
                     !.pc = IF s.pc = "first" THEN "first_multi" ELSE "rest_multi",
                     !.ml = Some(Block("open", s.row + 1, h.key,
                                 MultiLine(h.indentation, <<>>, None, FALSE, <<>>)))]
    ELSE LET b == unwrap(s.ml)
             step == read_value_step(b.loop, chars)
         IN
         CASE step.status = "more" ->
                 [pulled EXCEPT !.ml = Some([b EXCEPT !.loop = step.ms])]
           [] step.status = "closed" ->
                 text_handoff(
                     [pulled EXCEPT !.ml = Some([b EXCEPT !.status = "closed",
                                                          !.loop = step.ms])],
                     LineMeta(b.row, b.loop.original_indentation, b.key,
                              Some(step.ms.string_builder)))
           [] step.status = "err" ->
                 text_fail([pulled EXCEPT !.ml = Some([b EXCEPT !.status = "failed",
                                                               !.loop = step.ms])],
                           ScanError_of(s.row + 1, step.msg))
           [] step.status = "panic" ->
                 text_fail([pulled EXCEPT !.ml = Some([b EXCEPT !.status = "failed",
                                                               !.loop = step.ms])],
                           RetPanic)

(* An end of the text at which nothing is returned. *)
end_of_text_pending(s) == s

(* line_iterator.next() gives None: to read_value (parser.rs 183-186) or   *)
(* to parse_jecs_string (parser.rs 41-45).                                 *)
end_of_text(s) ==
    IF s.pc \in {"first_multi", "rest_multi"}
    THEN text_fail([s EXCEPT !.ml = Some([unwrap(s.ml) EXCEPT !.status = "failed"])],
                   ScanError_of(s.row,
                       "Multi-line string started, but file ends unexpectedly"))
    ELSE LET out == post_line_addition_cleanup(s.roots, s.stack)
         IN [s EXCEPT !.pc = "done", !.roots = out.roots, !.stack = out.stack,
                      !.result = Some(finalize_to_map(out.roots))]

(* The loops of parser.rs 29-40 on the lines from position i on. *)
RECURSIVE scan_lines(_, _, _)
scan_lines(s, lines, i) ==
    IF s.pc = "done" \/ i > Len(lines) THEN s
    ELSE scan_lines(scan_line(s, lines[i]), lines, i + 1)

parse_run(lines) ==
    LET s == scan_lines(ParseStart, lines, 1)
    IN IF s.pc = "done" THEN s ELSE end_of_text(s)

parse_jecs_string(lines) == unwrap(parse_run(lines).result)

(* The texts: every sequence of at most MaxInputLines of these lines. *)
TextLines ==
    { <<>>, <<" ", "#">>, <<"a", ":">>, <<" ", "b", ":", " ", "x">>, <<" ", "-">>,
      <<"a", ":", " ">> \o Quotes3, <<" ", " ", "x">>, <<" ", " ">> \o Quotes3 }

Inputs == SeqsUpTo(TextLines, MaxInputLines)

Current == ParseState(pc, row, line, roots, stack, accepted, result, ml)

Become(s) ==
    /\ pc' = s.pc
    /\ row' = s.row
    /\ line' = s.line
    /\ roots' = s.roots
    /\ stack' = s.stack
    /\ accepted' = s.accepted
    /\ result' = s.result
    /\ ml' = s.ml
    /\ UNCHANGED <<textVars, typeVars>>

InitText ==
    /\ pc = "first"
    /\ row = 0
    /\ line = None
    /\ roots = <<>>
    /\ stack = <<>>
    /\ accepted = <<>>
    /\ result = None
    /\ ml = None
    /\ input \in Inputs
    /\ node = JecsAny
    /\ access = None

(* The next line of the text is pulled. *)
TextLine ==
    /\ pc # "done"
    /\ row < Len(input)
    /\ Become(scan_line(Current, input[row + 1]))

(* The text has no further line. *)
TextEnd ==
    /\ pc # "done"
    /\ row = Len(input)
    /\ Become(end_of_text(Current))

NextText ==
    \/ TextLine
    \/ TextEnd

SpecText == InitText /\ [][NextText]_vars

(* parse_jecs_string is one call running on one thread, so while it has   *)
(* not returned its loop goes on: line_iterator.next() is called again     *)
(* (parser.rs 26, 28, 183) and, once that gives None, the function goes    *)
(* to its return.                                                          *)
Pulls == pc # "done" /\ row < Len(input) /\ row' = row + 1

Returns == pc # "done" /\ row = Len(input) /\ pc' = "done"

SpecTextFair == SpecText /\ WF_row(Pulls) /\ WF_pc(Returns)

----------------------------------------------------------------------------
(* Reference conversion of a forest (spec 4.3): what the finalizer is to   *)
(* produce, written by structural recursion.  Where a mapping has several  *)
(* children of one key the last one stands, as with repeated insertion.    *)

ChildKeys(children) == { unwrap(children[i].meta.key) : i \in DOMAIN children }

LastWithKey(children, k) ==
    children[CHOOSE i \in DOMAIN children :
                /\ unwrap(children[i].meta.key) = k
                /\ \A j \in DOMAIN children :
                      unwrap(children[j].meta.key) = k => j <= i]

RECURSIVE Conversion(_)
Conversion(entry) ==
    CASE entry.determined_type = "Any" -> JecsAny
      [] entry.determined_type = "Value" -> JecsValue(unwrap(entry.meta.value))
      [] entry.determined_type = "Map" ->
            JecsMap([k \in ChildKeys(entry.children) |->
                        Conversion(LastWithKey(entry.children, k))])
      [] entry.determined_type = "List" ->
            JecsList([i \in DOMAIN entry.children |-> Conversion(entry.children[i])])

Done == pc = "done"
Returned == unwrap(result)
ReturnedOk == Done /\ Returned.kind = "Ok"

(* The nodes of a forest: the given nodes and all their descendants. *)
RECURSIVE NodesOf(_)
NodesOf(nodes) ==
    UNION { {nodes[i]} \cup NodesOf(nodes[i].children) : i \in DOMAIN nodes }

HasRepeatedKey(entry) ==
    /\ entry.determined_type = "Map"
    /\ \E i, j \in DOMAIN entry.children :
          i < j /\ entry.children[i].meta.key = entry.children[j].meta.key

----------------------------------------------------------------------------
(* C1: parse_jecs_string returns Ok(a Map value) or                        *)
(* Err(JecsCorruptedDataError) for every input; no sequence of accepted    *)
(* lines drives the tree builder or the finalizer into a panic.            *)
C1_ReturnsOkMapOrErr ==
    Done => /\ Returned.kind \in {"Ok", "Err"}
            /\ Returned.kind = "Ok" => Returned.value.t = "Map"

(* C2: for every successful parse the returned value is the synthetic      *)
(* top-level Mapping: its keys are exactly the keys of the root nodes and  *)
(* each key maps to the conversion of a root node of that key.             *)
C2_ReturnsSyntheticRoot ==
    ReturnedOk =>
        /\ Returned.value.t = "Map"
        /\ DOMAIN Returned.value.map = ChildKeys(roots)
        /\ \A k \in ChildKeys(roots) :
              \E i \in DOMAIN roots :
                 /\ unwrap(roots[i].meta.key) = k
                 /\ Returned.value.map[k] = Conversion(roots[i])

----------------------------------------------------------------------------
(* Vocabulary of the tree-builder claims. *)

(* This step hands a record to append_next_line (parser.rs 38). *)
AppendStep == pc = "rest" /\ row' = row + 1 /\ line' # None

Offered == unwrap(line')

Rejected == pc' = "done" /\ unwrap(result').kind = "Err"

(* Every node the builder holds: on the stack, under it, or under roots. *)
BuilderNodes == NodesOf(roots) \cup NodesOf(stack)

(* The children a stack entry has so far: the merged ones and, for an     *)
(* entry below the top, the entry above it.                               *)
ChildrenSoFar(i) ==
    IF i < Len(stack) THEN Append(stack[i].children, stack[i + 1])
                      ELSE stack[i].children

Mixed(children) ==
    \E i, j \in DOMAIN children :
        is_list(children[i].meta) /\ ~is_list(children[j].meta)

(* The stack entry under which a line of this indentation would be a      *)
(* direct sibling of that entry's open child.                              *)
SiblingParents(ind) ==
    { i \in 1..(Len(stack) - 1) : stack[i + 1].meta.indentation = ind }

----------------------------------------------------------------------------
(* C5: a line that would become a direct sibling under a parent whose kind *)
(* is fixed as Sequence is rejected if it is keyed, and under a parent     *)
(* fixed as Mapping if it is a list entry, in the sibling case and in the  *)
(* dedent case alike; no node ever has both keyed and list-entry children. *)
C5_NoMixedSiblings ==
    /\ [][AppendStep =>
            \A i \in SiblingParents(Offered.indentation) :
                stack[i].determined_type # get_data_type(Offered) => Rejected]_vars
    /\ [](\A n \in BuilderNodes : ~Mixed(n.children))
    /\ [](\A i \in DOMAIN stack : ~Mixed(ChildrenSoFar(i)))

C5_Witness ==
    /\ Done /\ Returned.kind = "Err"
    /\ Returned.err.msg =
          "Cannot mix list and dict collection entries within the same parent"
    /\ line # None /\ ~is_list(unwrap(line))

(* C6: every node at the bottom of the stack or in the roots list has      *)
(* indentation 0 and a key; a list entry arriving at root level is         *)
(* rejected, as first record, as sibling of a root or after a dedent that  *)
(* empties the stack.                                                      *)
C6_RootsAreKeyed ==
    /\ [](Len(stack) > 0 =>
            stack[1].meta.indentation = 0 /\ ~is_list(stack[1].meta))
    /\ [](\A i \in DOMAIN roots :
            roots[i].meta.indentation = 0 /\ ~is_list(roots[i].meta))
    /\ [][(pc \in {"first", "rest"} /\ row' = row + 1 /\ line' # None
           /\ Offered.indentation = 0 /\ is_list(Offered)) => Rejected]_vars

C6_Witness ==
    /\ Done /\ Returned.kind = "Err"
    /\ Returned.err.msg = "Root level entries need a key"
    /\ Returned.err.row > 2
    /\ line # None /\ is_list(unwrap(line)) /\ unwrap(line).indentation = 0

(* C7: a line whose indentation is smaller than the top's and equals       *)
(* neither the indentation nor the expected_child_indentation of any stack *)
(* entry is rejected and is not added to the tree.                         *)
C7_DedentToNoLevelRejected ==
    [][(/\ AppendStep
        /\ Offered.indentation < Last(stack).meta.indentation
        /\ \A i \in DOMAIN stack :
              /\ stack[i].meta.indentation # Offered.indentation
              /\ stack[i].expected_child_indentation # Offered.indentation)
       => /\ Rejected
          /\ LET out == append_next_line(roots, stack, Offered)
             IN \A n \in NodesOf(out.roots) \cup NodesOf(out.stack) :
                   n.meta # Offered]_vars

C7_Witness ==
    /\ Done /\ Returned.kind = "Err"
    /\ Returned.err.msg = "Wrongly indented JECS entry"
    /\ Returned.err.expected = 1 /\ Returned.err.got = 2
    /\ line # None /\ unwrap(line).indentation = 2

(* C8: a node whose line carries a value never gains a child: a following  *)
(* line of greater indentation is rejected; and a node with a child has no *)
(* value in its line record.                                               *)
C8_ScalarHasNoChild ==
    /\ [][(/\ AppendStep
           /\ Last(stack).meta.value # None
           /\ Offered.indentation > Last(stack).meta.indentation)
          => Rejected]_vars
    /\ [](\A n \in BuilderNodes : Len(n.children) > 0 => n.meta.value = None)
    /\ [](\A i \in DOMAIN stack :
            Len(ChildrenSoFar(i)) > 0 => stack[i].meta.value = None)

C8_Witness ==
    /\ Done /\ Returned.kind = "Err"
    /\ Returned.err.msg = "Child entries can only be added to entries without value"
    /\ line # None /\ unwrap(line).indentation > 0

----------------------------------------------------------------------------
(* C3: for a node of kind Empty (JecsType::Any) both expect_map and        *)
(* expect_list succeed, each yielding a collection with zero entries.      *)
C3_EmptyNodeCoercesToEmpty ==
    (node.t = "Any" /\ (Called("expect_map") \/ Called("expect_list")))
       => /\ Outcome.kind = "Ok"
          /\ DOMAIN Outcome.value = {}

(* C4: for every variant and every accessor the call returns a success     *)
(* value or a typed error (WrongEntryType or IncompatibleOrMalformedData); *)
(* it never panics.                                                        *)
C4_AccessorsNeverPanic ==
    access # None =>
        \/ Outcome.kind = "Ok"
        \/ /\ Outcome.kind = "Err"
           /\ Outcome.error \in {"WrongEntryType", "IncompatibleOrMalformedData"}

----------------------------------------------------------------------------
(* Multi-line strings. *)

(* The lines read_value pulled for the string, the opener excluded. *)
StringLines == unwrap(ml).loop.lines

StringClosed == ml # None /\ unwrap(ml).status = "closed"

RECURSIVE Indent(_)
Indent(chars) ==
    IF chars # <<>> /\ Head(chars) = " " THEN 1 + Indent(Tail(chars)) ELSE 0

NonBlank(chars) == \E i \in DOMAIN chars : chars[i] # " "

(* What a continuation line gives to the string: nothing for a blank line, *)
(* else the value scanned after its indentation (nothing when only a       *)
(* comment follows).                                                       *)
Segment(chars) ==
    LET scanned == read_value_raw(skip_spaces(chars))
    IN IF scanned = None THEN <<>> ELSE unwrap(scanned)

RECURSIVE Join(_)
Join(segments) ==
    IF segments = <<>> THEN <<>>
    ELSE IF Len(segments) = 1 THEN segments[1]
    ELSE segments[1] \o <<Newline>> \o Join(Tail(segments))

(* C9: when a multi-line string is closed, the value of its record is the  *)
(* segments of the continuation lines before the terminator joined with    *)
(* "\n": a blank line is an empty segment wherever it stands, any other    *)
(* line gives its scanned value.                                           *)
C9_StringIsJoinedSegments ==
    StringClosed =>
        /\ line # None
        /\ unwrap(line).value =
              Some(Join([i \in 1..(Len(StringLines) - 1) |-> Segment(StringLines[i])]))

(* A closed string whose first and third lines are blank, around one with  *)
(* content.                                                                *)
C9_Witness ==
    /\ StringClosed
    /\ Len(StringLines) = 4
    /\ ~NonBlank(StringLines[1])
    /\ NonBlank(StringLines[2])
    /\ ~NonBlank(StringLines[3])
    /\ unwrap(line).value = Some(<<Newline, "x", Newline>>)

ParseFailed == pc = "done" /\ result # None /\ unwrap(result).kind = "Err"

FirstNonBlank(lines) ==
    lines[CHOOSE i \in DOMAIN lines :
             /\ NonBlank(lines[i])
             /\ \A j \in 1..(i - 1) : ~NonBlank(lines[j])]

(* C10: once read_value has pulled a continuation line that contains a     *)
(* character other than a space and is indented no deeper than the opener, *)
(* or not as the first such line of the string, the parse has failed with  *)
(* an error.                                                               *)
C10_MisindentedLineFails ==
    ml # None =>
        \A i \in DOMAIN StringLines :
            ( /\ NonBlank(StringLines[i])
              /\ \/ Indent(StringLines[i]) <= unwrap(ml).loop.original_indentation
                 \/ Indent(StringLines[i]) # Indent(FirstNonBlank(StringLines)) )
            => ParseFailed

----------------------------------------------------------------------------
(* Single-line values. *)

(* The text after the key of the scanned line. *)
ValueText == Drop(input[1], Len(KeyPart))

AfterSpaces(text) == Drop(text, Indent(text))

(* The position of the first '#' with no backslash directly before it, or  *)
(* one past the end.                                                       *)
CommentStart(text) ==
    LET starts == { i \in DOMAIN text :
                       text[i] = "#" /\ (i = 1 \/ text[i - 1] # "\\") }
    IN IF starts = {} THEN Len(text) + 1
       ELSE CHOOSE i \in starts : \A j \in starts : i <= j

RECURSIVE Unescaped(_)
Unescaped(text) ==
    IF text = <<>> THEN <<>>
    ELSE IF Len(text) >= 2 /\ text[1] = "\\" /\ text[2] = "#"
    THEN <<"#">> \o Unescaped(Drop(text, 2))
    ELSE <<text[1]>> \o Unescaped(Tail(text))

WithoutTrailingSpaces(text) ==
    LET solid == { i \in DOMAIN text : text[i] # " " }
    IN IF solid = {} THEN <<>>
       ELSE SubSeq(text, 1, CHOOSE i \in solid : \A j \in solid : j <= i)

ExpectedValue(text) ==
    LET v == AfterSpaces(text)
    IN IF v = <<>> \/ Head(v) = "#" THEN None
       ELSE Some(WithoutTrailingSpaces(Unescaped(SubSeq(v, 1, CommentStart(v) - 1))))

(* C11: the value scanned from a single-line value text is the characters  *)
(* up to the first '#' that has no backslash directly before it, with each *)
(* backslash-'#' pair replaced by '#' and the trailing spaces removed; it  *)
(* is absent when the text after the spaces is empty or starts with '#'.   *)
C11_ValueIsUncommentedText ==
    pc = "scanned" =>
        /\ line # None
        /\ unwrap(line).value = ExpectedValue(ValueText)

(* A value with an escaped '#' directly before the comment. *)
C11_Witness ==
    /\ pc = "scanned"
    /\ ValueText = <<"x", "\\", "#", "#">>
    /\ unwrap(line).value = Some(<<"x", "#">>)

----------------------------------------------------------------------------
(* Typed accessors on Value nodes. *)

OnValue(op) == Called(op) /\ node.t = "Value"

(* C12: expect_component_address on a Value of text t returns n when t is  *)
(* "C-" followed by the decimal numeral of a u32 n; otherwise, whether the *)
(* prefix is missing or the rest is no u32, it returns                     *)
(* IncompatibleOrMalformedData("component address", t) with the full t.    *)
C12_ComponentAddressReportsFullText ==
    OnValue("expect_component_address") =>
        LET t == node.value
            n == parse_u32(Drop(t, 2))
        IN IF starts_with(t, <<"C", "-">>) /\ n # None
           THEN Outcome = AccOk(unwrap(n))
           ELSE Outcome = IncompatibleOrMalformed("component address", t)

HexOrder ==
    << "0", "1", "2", "3", "4", "5", "6", "7",
       "8", "9", "A", "B", "C", "D", "E", "F" >>

HexDigitValue(c) == (CHOOSE i \in DOMAIN HexOrder : HexOrder[i] = c) - 1

PairValue(t, i) == HexDigitValue(t[i]) * Len(HexOrder) + HexDigitValue(t[i + 1])

IsColorText(t) ==
    /\ Len(t) = ColorLen
    /\ \A i \in DOMAIN t : \E j \in DOMAIN HexOrder : HexOrder[j] = t[i]

(* C13: expect_color on a Value of text t succeeds exactly when t is six   *)
(* characters, each 0-9 or upper-case A-F, and then returns the values of  *)
(* the three two-digit hexadecimal pairs as (R, G, B); for any other text  *)
(* it returns IncompatibleOrMalformedData("color", t).                     *)
C13_ColorIsSixUpperHexDigits ==
    OnValue("expect_color") =>
        LET t == node.value
        IN IF IsColorText(t)
           THEN Outcome = AccOk(<<PairValue(t, 1), PairValue(t, 3), PairValue(t, 5)>>)
           ELSE Outcome = IncompatibleOrMalformed("color", t)

C13_Witness ==
    /\ OnValue("expect_color")
    /\ node.value = <<"A", "0", "0", "A", "0", "0">>
    /\ Outcome = AccOk(<<160, 10, 0>>)

----------------------------------------------------------------------------
(* The finalizer's values. *)

(* Whether value v, standing in the returned tree where the value of node  *)
(* entry belongs, holds only what entry owns: a Map value of a Map node    *)
(* has only keys of the node's own children, each with the conversion of   *)
(* such a child.  The elements of a List value are looked at in turn.      *)
RECURSIVE OwnsItsEntries(_, _)
OwnsItsEntries(v, entry) ==
    CASE entry.determined_type = "Map" /\ v.t = "Map" ->
            \A k \in DOMAIN v.map :
               \E i \in DOMAIN entry.children :
                  /\ entry.children[i].meta.key = Some(k)
                  /\ v.map[k] = Conversion(entry.children[i])
      [] entry.determined_type = "List" /\ v.t = "List" ->
            \A i \in DOMAIN v.list \cap DOMAIN entry.children :
               OwnsItsEntries(v.list[i], entry.children[i])
      [] OTHER -> TRUE

(* C14: in the value a successful parse returns, the Map value of every    *)
(* Map node holds only entries of that node's own direct children, each    *)
(* the conversion of such a child; nothing of a later sibling or a later   *)
(* root is inserted into it.  Of several roots of one key the last one's  *)
(* value stands under that key.                                            *)
C14_MapHoldsOnlyOwnChildren ==
    ReturnedOk =>
        \A k \in DOMAIN Returned.value.map \cap ChildKeys(roots) :
            OwnsItsEntries(Returned.value.map[k], LastWithKey(roots, k))

(* Whether value v, standing in the returned tree where the value of node  *)
(* entry belongs, keeps the children of every List node: a List node has a *)
(* List value with the conversions of its children, one each, in order.    *)
RECURSIVE ListsKeepChildren(_, _)
ListsKeepChildren(v, entry) ==
    CASE entry.determined_type = "List" ->
            /\ v.t = "List"
            /\ Len(v.list) = Len(entry.children)
            /\ \A i \in DOMAIN entry.children :
                  v.list[i] = Conversion(entry.children[i])
      [] entry.determined_type = "Map" /\ v.t = "Map" ->
            \A k \in DOMAIN v.map \cap ChildKeys(entry.children) :
               ListsKeepChildren(v.map[k], LastWithKey(entry.children, k))
      [] OTHER -> TRUE

(* C15: in the value a successful parse returns, every List node with      *)
(* children c1..cn has a List value of length n whose i-th element is the  *)
(* conversion of ci: no list entry is dropped, duplicated or reordered.    *)
C15_ListKeepsChildrenInOrder ==
    ReturnedOk =>
        \A k \in DOMAIN Returned.value.map \cap ChildKeys(roots) :
            ListsKeepChildren(Returned.value.map[k], LastWithKey(roots, k))

----------------------------------------------------------------------------
(* The parse of a whole text. *)

Failed == result # None /\ unwrap(result).kind = "Err"

(* C16: the parse stops at the first line that raises an error: from then  *)
(* on no line is pulled and nothing changes, the function has returned the *)
(* error and no value, and the text cut off after the last line pulled     *)
(* gives the same error, row and description, so nothing that follows that *)
(* line has a part in it.                                                  *)
C16_StopsAtFirstError ==
    /\ [][pc # "done"]_vars
    /\ [](Failed =>
            /\ pc = "done"
            /\ row <= Len(input)
            /\ parse_jecs_string(SubSeq(input, 1, row)) = Returned)

(* An error raised by the second of four lines. *)
C16_Witness ==
    /\ Failed
    /\ row = 2
    /\ Len(input) = 4
    /\ Returned.err.row = 2

BlankOrComment(chars) ==
    AfterSpaces(chars) = <<>> \/ Head(AfterSpaces(chars)) = "#"

(* The state of the run before line i is pulled. *)
StateBefore(i) == scan_lines(ParseStart, SubSeq(input, 1, i - 1), 1)

(* The blank and comment-only lines of the text that the parser meets      *)
(* outside a multi-line string.                                            *)
Skippable ==
    { i \in DOMAIN input :
         BlankOrComment(input[i]) /\ StateBefore(i).pc \in {"first", "rest"} }

RECURSIVE WithoutLines(_, _, _)
WithoutLines(lines, drop, i) ==
    IF i > Len(lines) THEN <<>>
    ELSE (IF i \in drop THEN <<>> ELSE <<lines[i]>>) \o WithoutLines(lines, drop, i + 1)

Stripped == WithoutLines(input, Skippable, 1)

(* A step that pulls a blank or comment-only line outside a multi-line     *)
(* string gives no record and leaves the stack and the roots as they were. *)
SkipLeavesBuilder ==
    (pc \in {"first", "rest"} /\ row < Len(input) /\ BlankOrComment(input[row + 1]))
        => /\ line' = None
           /\ pc' = pc
           /\ roots' = roots
           /\ stack' = stack
           /\ accepted' = accepted

(* Results that are equal but for the row of an error, which is lower by   *)
(* the number of skipped lines up to it.                                   *)
SameButRow(a, b) ==
    /\ a.kind = b.kind
    /\ a.kind = "Ok" => a = b
    /\ a.kind = "Err" =>
          /\ [a.err EXCEPT !.row = 0] = [b.err EXCEPT !.row = 0]
          /\ b.err.row = a.err.row - Cardinality({ i \in Skippable : i <= a.err.row })

(* C17 as stated: a blank or comment-only line outside a multi-line string *)
(* gives no record and leaves stack and roots unchanged, and the result of *)
(* the parse is the result for the text without such lines.                *)
C17_SkippedLinesChangeNothing ==
    /\ [][SkipLeavesBuilder]_vars
    /\ [](Done => Returned = parse_jecs_string(Stripped))

(* C17 amended: a blank or comment-only line outside a multi-line string   *)
(* gives no record and leaves stack and roots unchanged; the result of the *)
(* parse is the result for the text without such lines, except that the    *)
(* row of an error counts the skipped lines before it.                     *)
C17_SkippedLinesShiftRowsOnly ==
    /\ [][SkipLeavesBuilder]_vars
    /\ [](Done => SameButRow(Returned, parse_jecs_string(Stripped)))

(* A blank line, a record, a comment and an error on the fourth line. *)
C17_Witness ==
    /\ Done
    /\ input = << <<>>, <<"a", ":">>, <<" ", "#">>, <<" ", " ", "x">> >>
    /\ Returned.kind = "Err"
    /\ Returned.err.row = 4
    /\ parse_jecs_string(Stripped).err.row = 2

----------------------------------------------------------------------------
(* Invariants of the tree builder. *)

(* add_validate_root or append_next_line has succeeded at least once and   *)
(* no call has failed.                                                     *)
Building == pc = "rest"

(* C18: after every successful add_validate_root / append_next_line the    *)
(* stack is not empty, its bottom entry has indentation 0, indentations    *)
(* grow strictly from bottom to top, and every entry above the bottom is   *)
(* indented by the expected_child_indentation of the entry below it.       *)
C18_StackIsOneOpenNodePerDepth ==
    Building =>
        /\ stack # <<>>
        /\ stack[1].meta.indentation = 0
        /\ \A i \in 1..(Len(stack) - 1) :
              /\ stack[i].meta.indentation < stack[i + 1].meta.indentation
              /\ stack[i + 1].meta.indentation = stack[i].expected_child_indentation

(* A stack of three whose upper entries sit at indentations 2 and 3, the   *)
(* top one having replaced a sibling.                                      *)
C18_Witness ==
    /\ Building
    /\ Len(stack) = 3
    /\ stack[2].meta.indentation = 2
    /\ stack[3].meta.indentation = 3
    /\ Len(stack[2].children) = 1

(* C19: in every state of the builder each node's kind fits its content:   *)
(* Value exactly when its line has a value, and then it has no children    *)
(* and nothing above it on the stack; Any has no children and nothing      *)
(* above it on the stack; the children of a Map, merged or on the stack    *)
(* above it, are all keyed and those of a List are all list entries; every *)
(* stack entry below the top is a Map or a List.  So, once the stack is    *)
(* drained, the finalizer's value for a node is Any only for a line        *)
(* without value and without children.                                     *)
C19_KindFitsContent ==
    /\ \A n \in BuilderNodes :
          /\ (n.determined_type = "Value") <=> (n.meta.value # None)
          /\ n.determined_type \in {"Value", "Any"} => n.children = <<>>
          /\ n.determined_type = "Map" =>
                \A i \in DOMAIN n.children : ~is_list(n.children[i].meta)
          /\ n.determined_type = "List" =>
                \A i \in DOMAIN n.children : is_list(n.children[i].meta)
    /\ \A i \in 1..(Len(stack) - 1) :
          /\ stack[i].determined_type \in {"Map", "List"}
          /\ stack[i].determined_type = get_data_type(stack[i + 1].meta)
    /\ Done =>
          \A n \in NodesOf(roots) :
             (convert_entry(n).t = "Any") <=>
                (n.meta.value = None /\ n.children = <<>>)

(* A List on the stack with a merged entry and an open one, under a Map. *)
C19_Witness ==
    /\ Building
    /\ Len(stack) = 3
    /\ stack[1].determined_type = "Map"
    /\ stack[2].determined_type = "List"
    /\ Len(stack[2].children) = 1
    /\ stack[3].determined_type = "Value"

(* The lines of a forest in the order of its nodes, parents first. *)
RECURSIVE LinesOf(_)
LinesOf(nodes) ==
    IF nodes = <<>> THEN <<>>
    ELSE <<Head(nodes).meta>> \o LinesOf(Head(nodes).children) \o LinesOf(Tail(nodes))

(* The lines of the stack: each entry, its merged children, then the       *)
(* entry above it.                                                         *)
RECURSIVE LinesOfStack(_)
LinesOfStack(st) ==
    IF st = <<>> THEN <<>>
    ELSE <<Head(st).meta>> \o LinesOf(Head(st).children) \o LinesOfStack(Tail(st))

(* C20: no accepted line is lost or duplicated: after every successful     *)
(* append the nodes under the roots and on the stack, children included,   *)
(* are one per accepted line, and after post_line_addition_cleanup the     *)
(* stack is empty and the roots forest has one node per accepted line,     *)
(* roots and children in the order of the lines.                           *)
C20_OneNodePerAcceptedLine ==
    /\ Building => LinesOf(roots) \o LinesOfStack(stack) = accepted
    /\ (Done /\ Returned.kind # "Err") =>
          /\ stack = <<>>
          /\ LinesOf(roots) = accepted

(* Four accepted lines ending as two roots, the first with two children. *)
C20_Witness ==
    /\ Done
    /\ Returned.kind = "Ok"
    /\ Len(accepted) = 4
    /\ Len(roots) = 2
    /\ Len(roots[1].children) = 2

(* The node of the given line in the next state, as a set: rows tell the   *)
(* nodes apart.                                                            *)
Later(n) == { m \in BuilderNodes' : m.meta = n.meta }

(* A step keeps what node n has fixed: a Map or List keeps its kind and    *)
(* its expected_child_indentation; a node that gets its kind in this step  *)
(* had no child and is now directly below the new top, the offered line,   *)
(* whose indentation it expects.                                           *)
KeepsKind(n) ==
    \A m \in Later(n) :
        /\ n.determined_type \in {"Map", "List"} =>
              /\ m.determined_type = n.determined_type
              /\ m.expected_child_indentation = n.expected_child_indentation
        /\ n.determined_type = "Value" => m.determined_type = "Value"
        /\ (n.determined_type = "Any" /\ m.determined_type # "Any") =>
              /\ n.children = <<>>
              /\ line' # None
              /\ Len(stack') >= 2
              /\ stack'[Len(stack') - 1] = m
              /\ Last(stack').meta = Offered
              /\ m.determined_type = get_data_type(Offered)
              /\ m.expected_child_indentation = Offered.indentation

(* C21: a node's kind and expected_child_indentation are set once, when    *)
(* its first child arrives, and stay; every child merged into the node is  *)
(* indented by that expected_child_indentation, which is greater than the  *)
(* node's own indentation.                                                 *)
C21_KindIsSetOnceByFirstChild ==
    /\ [][\A n \in BuilderNodes : KeepsKind(n)]_vars
    /\ [](\A n \in BuilderNodes :
             /\ n.determined_type = "Any" => n.expected_child_indentation = 0
             /\ n.children # <<>> =>
                   /\ n.determined_type \in {"Map", "List"}
                   /\ n.expected_child_indentation > n.meta.indentation
                   /\ \A i \in DOMAIN n.children :
                         n.children[i].meta.indentation = n.expected_child_indentation)

(* A node at indentation 0 with two merged children at indentation 2. *)
C21_Witness ==
    /\ Building
    /\ \E n \in BuilderNodes :
          /\ n.meta.indentation = 0
          /\ n.expected_child_indentation = 2
          /\ Len(n.children) = 2

IsPrefix(a, b) == Len(a) <= Len(b) /\ SubSeq(b, 1, Len(a)) = a

(* The step leaves the TreeParser alive: no call failed in it. *)
ParserKept == result' = None \/ unwrap(result').kind = "Ok"

(* C22: a node that was popped from the stack and appended to a parent's   *)
(* children or to the roots is not changed by any later append_next_line   *)
(* or by post_line_addition_cleanup: in every step that keeps the parser   *)
(* the roots stay as they are and only gain entries at the end, and so do  *)
(* the children of every stack entry, wherever that entry is afterwards.   *)
C22_MergedNodesAreFrozen ==
    [][ParserKept =>
          /\ IsPrefix(roots, roots')
          /\ \A i \in DOMAIN stack :
                \A m \in Later(stack[i]) :
                   IsPrefix(stack[i].children, m.children)]_vars

(* The drained forest: a first root with two children, merged at different *)
(* steps, and a second root.                                               *)
C22_Witness ==
    /\ Done
    /\ Returned.kind = "Ok"
    /\ stack = <<>>
    /\ Len(roots) = 2
    /\ Len(roots[1].children) = 2
    /\ roots[1].children[1].determined_type = "Value"

----------------------------------------------------------------------------
(* Termination and the empty text. *)

(* C23: the parse of a finite text ends.  While the function has not       *)
(* returned, a scanner call on a text with a line left consumes exactly    *)
(* that line, and the end of the text makes the function return with the   *)
(* stack drained and the finalizer's result; every step is one of the two, *)
(* so the function returns in the end.  The dedent walk, the drain and the *)
(* finalizer's loops are evaluated to their end within the steps.          *)
C23_ParseTerminates ==
    /\ [](pc # "done" /\ row < Len(input)
            => scan_line(Current, input[row + 1]).row = row + 1)
    /\ [](pc # "done" /\ row = Len(input)
            => LET s == end_of_text(Current) IN
               s.pc = "done" /\ s.result # None /\ s.stack = <<>>)
    /\ [][row' = row + 1 \/ (row = Len(input) /\ pc' = "done")]_vars
    /\ [](row <= Len(input))
    /\ [](Done => result # None)
    /\ <>Done

(* A returned parse of four lines whose last line walked down a stack of   *)
(* two to a new root, which the end of the text then drained.              *)
C23_Witness ==
    /\ Done
    /\ Returned.kind = "Ok"
    /\ row = 4
    /\ stack = <<>>
    /\ Len(roots) = 2
    /\ Len(roots[1].children) = 2

(* The text holds nothing but blank and comment-only lines (or no line). *)
NothingToAccept == \A i \in DOMAIN input : BlankOrComment(input[i])

(* C24: a text without an accepted line parses to an empty top-level       *)
(* mapping: the first loop never seeds a root, the second loop is never    *)
(* entered, so append_next_line never runs, and the finalizer returns the  *)
(* synthetic root without an entry.  In any parse the second loop runs     *)
(* only with a node on the stack.                                          *)
C24_EmptyTextIsEmptyMap ==
    /\ NothingToAccept =>
          /\ pc \in {"first", "done"}
          /\ roots = <<>>
          /\ stack = <<>>
          /\ accepted = <<>>
          /\ line = None
          /\ Done => /\ row = Len(input)
                     /\ Returned.kind = "Ok"
                     /\ Returned.value.t = "Map"
                     /\ DOMAIN Returned.value.map = {}
    /\ pc \in {"rest", "rest_multi"} => stack # <<>>

(* The parse of a blank line and a comment line has returned. *)
C24_Witness ==
    /\ Done
    /\ input = << <<>>, <<" ", "#">> >>
    /\ Returned.kind = "Ok"
    /\ Returned.value.t = "Map"

(* The line offered to append_next_line goes to handle_new_sibling_line    *)
(* and the pop there leaves the stack empty.                               *)
SiblingOfRoot ==
    /\ AppendStep
    /\ Len(stack) = 1
    /\ Offered.indentation = Last(stack).meta.indentation

(* C25: the bottom of the stack is a root and has indentation 0, so a line *)
(* that reaches add_validate_root from handle_new_sibling_line has         *)
(* indentation 0: there the call fails only for a missing key, and         *)
(* otherwise the old root joins roots and the line becomes the stack.      *)
C25_SiblingOfRootHasNoIndentation ==
    /\ [](stack # <<>> => stack[1].meta.indentation = 0)
    /\ [][SiblingOfRoot =>
            /\ Offered.indentation = 0
            /\ IF is_list(Offered)
               THEN /\ Rejected
                    /\ unwrap(result').err.msg = "Root level entries need a key"
               ELSE /\ ~Rejected
                    /\ roots' = Append(roots, stack[1])
                    /\ stack' = <<LineContext_new(Offered)>>]_vars

(* The second line of two records took the place of the first root, which *)
(* went to roots.                                                          *)
C25_Witness ==
    /\ Building
    /\ row = 2
    /\ Len(roots) = 1
    /\ roots[1].meta.row = 1
    /\ Len(stack) = 1
    /\ stack[1].meta.row = 2
    /\ stack[1].meta.indentation = 0

=============================================================================
